---- MODULE Spec2Model ----
(***************************************************************************)
(* Lecture03.ipynb: iterative policy evaluation and policy improvement on  *)
(* the 4x4 grid world.                                                     *)
(*                                                                         *)
(* Number representation.  The value tables are numpy float32 arrays.  A   *)
(* table entry is modelled by the integer v such that the float32 value is *)
(* v / Unit, Unit = 2^23.  Every entry the notebook stores is 0 or <= -1,  *)
(* so it is a multiple of 2^-23 and the representation is exact.  The      *)
(* accumulator of the stochastic sweep passes through [-1, -0.25], where   *)
(* float32 is finer, and is kept in quarters of a unit (2^-25).  Sums are  *)
(* formed exactly (numpy forms them in float64, where every sum of this    *)
(* magnitude is exact) and each store into the float32 array rounds to 24  *)
(* significant bits, ties to even: RoundF32.                               *)
(***************************************************************************)
EXTENDS Integers, Sequences, FiniteSets, TLC

\* ---------------------------------------------------------------- bounds
MaxVal == 2      \* entries of the input tables of FnSpec lie in -MaxVal..0
MaxCalls == 1    \* direct update_values calls in one behaviour of FnSpec
MaxSteps == 3    \* length of the agent's walk in WalkSpec

\* ------------------------------------------------------ program constants
Unit == 8388608          \* 2^23: one unit of value, 1.0
Mantissa == 16777216     \* 2^24: float32 keeps 24 significant bits
AccPerUnit == 4          \* accumulator steps (2^-25) per table step (2^-23)
gamma == 1
n_iter == 100
TolEval == 100           \* err < 0.01  is  err * 100 < 1
TolDet == 1000           \* err < 0.001 is  err * 1000 < 1
PolicyDen == 4           \* policy_vector = np.ones(4) / 4

States == 0 .. 15
Actions == {"N", "S", "W", "E"}
actions == <<"N", "S", "W", "E">>

\* -------------------------------------------------------- State, Action
State(row, col) == row * 4 + col

position(s) == <<s \div 4, s % 4>>

reward_everywhere(s) == -1

reward(s) == IF s = 0 \/ s = 15 THEN 0 ELSE -1

direction(a) ==
  CASE a = "N" -> <<-1, 0>>
    [] a = "S" -> <<1, 0>>
    [] a = "E" -> <<0, 1>>
    [] a = "W" -> <<0, -1>>

is_valid_position_open(row, col) == 0 <= row /\ row <= 4 /\ 0 <= col /\ col <= 4

is_valid_position(row, col) == 0 <= row /\ row < 4 /\ 0 <= col /\ col < 4

IsTerminalPosition_last(row, col) == <<row, col>> = <<3, 3>>

IsTerminalPosition(row, col) == <<row, col>> = <<0, 0>> \/ <<row, col>> = <<3, 3>>

new_position_swapped(row, col, dirs) == <<row + dirs[2], col + dirs[1]>>

new_position(row, col, dirs) == <<row + dirs[1], col + dirs[2]>>

take_action(current_state, action) ==
  LET row == position(current_state)[1]
      col == position(current_state)[2]
  IN  IF IsTerminalPosition(row, col)
        THEN current_state
        ELSE LET dirs == direction(action)
                 np == new_position(row, col, dirs)
             IN  IF is_valid_position(np[1], np[2])
                   THEN State(np[1], np[2])
                   ELSE current_state

\* evaluate x once and hand its value to F (a local binding)
Let(x, F(_)) == CHOOSE r \in {F(v) : v \in {x}} : TRUE

\* -------------------------------------------------------------- float32
RECURSIVE Ulp(_)
Ulp(m) == IF m < Mantissa THEN 1 ELSE 2 * Ulp(m \div 2)

RoundMag_trunc(m) == LET q == Ulp(m) IN (m \div q) * q

RoundMag(m) ==
  LET q == Ulp(m)
      lo == (m \div q) * q
      rem == m - lo
  IN  IF 2 * rem < q THEN lo
      ELSE IF 2 * rem > q THEN lo + q
      ELSE IF (m \div q) % 2 = 0 THEN lo ELSE lo + q

RoundSigned(x) == IF x < 0 THEN 0 - RoundMag(0 - x) ELSE RoundMag(x)

RoundF32(x) == Let(x, LAMBDA v : RoundSigned(v))

Abs(x) == IF x < 0 THEN 0 - x ELSE x

ToAcc(v) == v * AccPerUnit

FromAcc(x) ==
  Let(x, LAMBDA a : IF a % AccPerUnit = 0 THEN a \div AccPerUnit ELSE "inexact")

zeros == [s \in States |-> 0]

NoPolicy == [s \in States |-> "none"]

\* ------------------------------------------------------- update_values
\* old_values[new_row][new_col]: the sweep reads the copy of the table passed in
OldValue_inplace(old_values, vals, new_state) == vals[new_state]

OldValue(old_values, vals, new_state) == old_values[new_state]

\* max |values - old_values|, the subtraction done in float32.  The code
\* squares in float32, takes the maximum and then the square root; both are
\* monotone and move the result by less than 1e-7 of itself, while the two
\* tolerances sit more than 1e-6 of themselves away from the nearest value
\* a difference of table entries can take, so err < tol is decided by the
\* largest absolute difference.
Diff(new_values, old_values) ==
  {Abs(RoundF32(new_values[s] - old_values[s])) : s \in States}

Err(new_values, old_values) ==
  Let(Diff(new_values, old_values),
      LAMBDA D : CHOOSE e \in D : \A d \in D : d <= e)

LessThanTol_loose(e, den) == e <= Unit \div 2

LessThanTol_flipped(e, den) == e > (Unit - 1) \div den

LessThanTol(e, den) == e <= (Unit - 1) \div den

\* values = np.zeros_like(values): the sweep writes a fresh array; were the
\* working array the caller's own (aliased), the caller would see the writes.
WorkingArray_alias(values_arg) == [aliased |-> TRUE, contents |-> values_arg]

WorkingArray(values_arg) == [aliased |-> FALSE, contents |-> zeros]

Passed(values_arg, work, final) == IF work.aliased THEN final ELSE values_arg

\* for action, prob in zip(actions, policy_vector): values[row, col] += ...
\* acc is values[row, col] in accumulator steps.
RECURSIVE AccumulateActions(_, _, _, _, _)
AccumulateActions(j, s, old_values, vals, acc) ==
  IF j > Len(actions) THEN acc
  ELSE LET new_state == take_action(s, actions[j])
           old_value == OldValue(old_values, vals, new_state)
           inner == reward(s) * Unit + gamma * old_value
           term == ToAcc(inner) \div PolicyDen
       IN  AccumulateActions(j + 1, s, old_values, vals, RoundF32(acc + term))

\* for row in range(0, 4): for col in range(0, 4): row-major, s = 0 .. 15
RECURSIVE SweepStates(_, _, _)
SweepStates(s, old_values, vals) ==
  IF s > 15 THEN vals
  ELSE Let(vals, LAMBDA v :
         SweepStates(s + 1, old_values,
           [v EXCEPT ![s] =
              FromAcc(AccumulateActions(1, s, old_values, v, ToAcc(v[s])))]))

update_values(values_arg) ==
  LET old_values == values_arg
      work == WorkingArray(values_arg)
  IN  Let(SweepStates(0, old_values, work.contents), LAMBDA new_values :
        [values |-> new_values,
         err |-> Err(new_values, old_values),
         passed |-> Passed(values_arg, work, new_values)])

\* the second definition: action = new_policy[row][col], no inner loop
RECURSIVE SweepStates2(_, _, _, _)
SweepStates2(s, old_values, vals, policy) ==
  IF s > 15 THEN vals
  ELSE Let(vals, LAMBDA v :
         LET new_state == take_action(s, policy[s])
             old_value == OldValue(old_values, v, new_state)
         IN  SweepStates2(s + 1, old_values,
               [v EXCEPT ![s] =
                  RoundF32(@ + (reward(s) * Unit + gamma * old_value))],
               policy))

update_values_2(values_arg, policy) ==
  LET old_values == values_arg
      work == WorkingArray(values_arg)
  IN  Let(SweepStates2(0, old_values, work.contents, policy), LAMBDA new_values :
        [values |-> new_values,
         err |-> Err(new_values, old_values),
         passed |-> Passed(values_arg, work, new_values)])

\* ----------------------------------------------------- improved_policy
Better_last(v, best) == v >= best

Better(v, best) == v > best

\* max(q_function, key=lambda t: t[1]): the first maximal element
RECURSIVE MaxByValue(_, _, _)
MaxByValue(q_function, j, best) ==
  IF j > Len(q_function) THEN q_function[best]
  ELSE MaxByValue(q_function, j + 1,
         IF Better(q_function[j][2], q_function[best][2]) THEN j ELSE best)

improved_policy(vals, state_number) ==
  LET state == State(position(state_number)[1], position(state_number)[2])
      q_function == [j \in 1 .. Len(actions) |->
                       <<actions[j], vals[take_action(state, actions[j])]>>]
  IN  MaxByValue(q_function, 2, 1)[1]

\* ---------------------------------------------------------------- state
VARIABLES
  values,        \* the global value table
  old_values,    \* the table the last sweep read (old_values = values.copy())
  passed,        \* the array handed to the last sweep, as it is afterwards
  err,           \* err of the last update_values call
  i,             \* the loop variable of the convergence loop
  new_policy,    \* the improved policy grid, NoPolicy before it is computed
  defn,          \* which definition the name update_values is bound to
  calls,         \* direct calls made so far (FnSpec, WalkSpec)
  op,            \* the operation that produced this state
  pc,            \* the cell that runs next
  agent,         \* current_state of an agent moving on the grid
  agent_from,    \* the state it moved from
  agent_action   \* the action it took, "none" before the first move

vars == <<values, old_values, passed, err, i, new_policy, defn, calls, op, pc,
          agent, agent_from, agent_action>>

table_vars == <<values, old_values, passed, err>>
agent_vars == <<agent, agent_from, agent_action>>

call_update_values(values_arg) ==
  IF defn = "stochastic" THEN update_values(values_arg)
  ELSE update_values_2(values_arg, new_policy)

\* the single Bellman sweep cell (inline, always the stochastic sweep)
SweepCell(here, next) ==
  /\ pc = here
  /\ \E r \in {update_values(values)} :
         /\ values' = r.values
         /\ old_values' = values
         /\ passed' = r.passed
  /\ op' = "sweep"
  /\ pc' = next
  /\ UNCHANGED <<err, i, new_policy, defn, calls, agent_vars>>

\* values = np.zeros_like(grid_world, dtype=np.float32); n_iter = 100
StartLoop(here, next) ==
  /\ pc = here
  /\ defn = "stochastic" \/ new_policy # NoPolicy
  /\ values' = zeros
  /\ i' = 0
  /\ op' = "zeros"
  /\ pc' = next
  /\ UNCHANGED <<old_values, passed, err, new_policy, defn, calls, agent_vars>>

\* one iteration of for i in range(n_iter): sweep, then the break test
LoopBody(tol, here, next) ==
  /\ pc = here
  /\ i < n_iter
  /\ \E r \in {call_update_values(values)} :
         /\ values' = r.values
         /\ err' = r.err
         /\ old_values' = values
         /\ passed' = r.passed
         /\ IF LessThanTol(r.err, tol)
              THEN pc' = next /\ i' = i
              ELSE IF i + 1 < n_iter
                     THEN pc' = here /\ i' = i + 1
                     ELSE pc' = next /\ i' = i
  /\ op' = "update_values"
  /\ UNCHANGED <<new_policy, defn, calls, agent_vars>>

\* new_policy = np.vectorize(lambda s: improved_policy(s))(grid_world)
Improve(here, next) ==
  /\ pc = here
  /\ new_policy' = [s \in States |-> improved_policy(values, s)]
  /\ op' = "improved_policy"
  /\ pc' = next
  /\ UNCHANGED <<table_vars, i, defn, calls, agent_vars>>

\* the cell that defines update_values a second time
Define2(here, next) ==
  /\ pc = here
  /\ new_policy # NoPolicy
  /\ defn = "stochastic"
  /\ defn' = "deterministic"
  /\ op' = "def"
  /\ pc' = next
  /\ UNCHANGED <<table_vars, i, new_policy, calls, agent_vars>>

\* ------------------------------------------ Spec: the notebook, top down
Init ==
  /\ values = zeros
  /\ old_values = zeros
  /\ passed = zeros
  /\ err = 0
  /\ i = 0
  /\ new_policy = NoPolicy
  /\ defn = "stochastic"
  /\ calls = 0
  /\ op = "init"
  /\ pc = "sweep_cell"
  /\ agent \in States
  /\ agent_from = agent
  /\ agent_action = "none"

RunSweepCell == SweepCell("sweep_cell", "loop1_start")
StartLoop1 == StartLoop("loop1_start", "loop1")
Loop1 == LoopBody(TolEval, "loop1", "improve")
RunImprove == Improve("improve", "define2")
RunDefine2 == Define2("define2", "loop2_start")
StartLoop2 == StartLoop("loop2_start", "loop2")
Loop2 == LoopBody(TolDet, "loop2", "done")

\* policy(state) draws any of the four actions; the agent takes it
AgentStep ==
  \E a \in Actions :
    /\ agent' = take_action(agent, a)
    /\ agent_from' = agent
    /\ agent_action' = a
    /\ UNCHANGED <<table_vars, i, new_policy, defn, calls, op, pc>>

Next ==
  \/ RunSweepCell
  \/ StartLoop1
  \/ Loop1
  \/ RunImprove
  \/ RunDefine2
  \/ StartLoop2
  \/ Loop2
  \/ AgentStep

Spec == Init /\ [][Next]_vars

\* ------------------- FnSpec: the functions on bounded inputs, any order
TableSet == {[zeros EXCEPT ![c] = (0 - x) * Unit] : c \in States, x \in 0 .. MaxVal}

FnInit ==
  /\ values \in TableSet
  /\ old_values = values
  /\ passed = values
  /\ err = 0
  /\ i = 0
  /\ new_policy = NoPolicy
  /\ defn = "stochastic"
  /\ calls = 0
  /\ op = "init"
  /\ pc = "idle"
  /\ agent = 0
  /\ agent_from = 0
  /\ agent_action = "none"

\* values, err = update_values(values) on the table at hand
FnCall ==
  /\ pc = "idle"
  /\ calls < MaxCalls
  /\ defn = "stochastic" \/ new_policy # NoPolicy
  /\ \E r \in {call_update_values(values)} :
         /\ values' = r.values
         /\ err' = r.err
         /\ old_values' = values
         /\ passed' = r.passed
  /\ calls' = calls + 1
  /\ op' = "update_values"
  /\ UNCHANGED <<i, new_policy, defn, pc, agent_vars>>

FnImprove == Improve("idle", "idle")
FnDefine2 == Define2("idle", "idle")
FnStartLoop1 == StartLoop("idle", "loop1")
FnLoop1 == LoopBody(TolEval, "loop1", "idle")
FnStartLoop2 == StartLoop("idle", "loop2")
FnLoop2 == LoopBody(TolDet, "loop2", "idle")

FnNext ==
  \/ FnCall
  \/ FnImprove
  \/ FnDefine2
  \/ FnStartLoop1
  \/ FnLoop1
  \/ FnStartLoop2
  \/ FnLoop2

FnSpec == FnInit /\ [][FnNext]_vars

\* ------ LoopSpec: the cells after the first, in any order, from all zeros
LoopInit ==
  /\ values = zeros
  /\ old_values = zeros
  /\ passed = zeros
  /\ err = 0
  /\ i = 0
  /\ new_policy = NoPolicy
  /\ defn = "stochastic"
  /\ calls = 0
  /\ op = "init"
  /\ pc = "idle"
  /\ agent = 0
  /\ agent_from = 0
  /\ agent_action = "none"

LoopNext ==
  \/ FnImprove
  \/ FnDefine2
  \/ FnStartLoop1
  \/ FnLoop1
  \/ FnStartLoop2
  \/ FnLoop2

\* a running cell runs on: the for loop takes its next iteration
FairLoopSpec ==
  LoopInit /\ [][LoopNext]_vars /\ WF_vars(FnLoop1) /\ WF_vars(FnLoop2)

\* ------------- WalkSpec: take_action applied along walks from any state
WalkInit ==
  /\ values = zeros
  /\ old_values = zeros
  /\ passed = zeros
  /\ err = 0
  /\ i = 0
  /\ new_policy = NoPolicy
  /\ defn = "stochastic"
  /\ calls = 0
  /\ op = "init"
  /\ pc = "idle"
  /\ agent \in States
  /\ agent_from = agent
  /\ agent_action = "none"

WalkStep ==
  \E a \in Actions :
    /\ calls < MaxSteps
    /\ agent' = take_action(agent, a)
    /\ agent_from' = agent
    /\ agent_action' = a
    /\ calls' = calls + 1
    /\ UNCHANGED <<table_vars, i, new_policy, defn, op, pc>>

WalkNext == WalkStep

WalkSpec == WalkInit /\ [][WalkNext]_vars

\* ---------------------------------------------------------------- types
TypeOK ==
  /\ values \in [States -> Int]
  /\ old_values \in [States -> Int]
  /\ passed \in [States -> Int]
  /\ err \in Nat
  /\ i \in 0 .. n_iter - 1
  /\ new_policy = NoPolicy \/ new_policy \in [States -> Actions]
  /\ defn \in {"stochastic", "deterministic"}
  /\ agent \in States

\* The policy grid the notebook displays for new_policy
PolicyGrid ==
  [s \in States |->
     <<"N", "W", "W", "S",
       "N", "N", "S", "S",
       "N", "N", "E", "S",
       "N", "E", "E", "N">>[s + 1]]

\* The float model reproduces the notebook's output: the improved policy is
\* the displayed grid, and evaluation of the random policy stops at i = 88.
ReproducesOutput ==
  /\ new_policy # NoPolicy => new_policy = PolicyGrid
  /\ pc = "improve" => i = 88 /\ values[1] = -116562080 /\ values[14] = -116562096

\* ------------------------------------------------------------- claims

\* C6: the two terminal states (0 at (0,0), 15 at (3,3)) are absorbing:
\* whatever action the agent takes from one of them, it stays there.
C6_TerminalAbsorbing ==
  (agent_action # "none" /\ agent_from \in {State(0, 0), State(3, 3)})
    => agent = agent_from

C6_Witness == agent_from = 0 /\ agent_action = "E" /\ agent = 0

\* C7: from a non-terminal state at (row, col), an action with direction
\* (dr, dc) leads to the state with index (row+dr)*4 + (col+dc) when that
\* position is inside the 4x4 grid, and leaves the state unchanged otherwise.
C7_MoveOrStay ==
  (agent_action # "none" /\ agent_from \notin {0, 15}) =>
    LET row == agent_from \div 4
        col == agent_from % 4
        dr == CASE agent_action = "N" -> -1 [] agent_action = "S" -> 1 [] OTHER -> 0
        dc == CASE agent_action = "W" -> -1 [] agent_action = "E" -> 1 [] OTHER -> 0
    IN  IF row + dr \in 0 .. 3 /\ col + dc \in 0 .. 3
          THEN agent = (row + dr) * 4 + (col + dc)
          ELSE agent = agent_from

C7_Witness == agent_from = 3 /\ agent_action = "N" /\ agent = 3

\* C8: take_action is closed over the grid: after any sequence of actions
\* from any state, the agent's state has index in 0..15 and row and column
\* in 0..3.
C8_StaysOnGrid ==
  /\ agent \in 0 .. 15
  /\ position(agent)[1] \in 0 .. 3
  /\ position(agent)[2] \in 0 .. 3

C8_Witness == calls = MaxSteps /\ agent_from = 12 /\ agent_action = "S" /\ agent = 12

\* C9: one sweep of the uniform-random policy from the all-zero table leaves
\* both terminal states at exactly 0 and every other state at exactly -1.
C9_FirstSweep ==
  (op \in {"sweep", "update_values"} /\ defn = "stochastic" /\ old_values = zeros)
    => \A s \in States : values[s] = IF s \in {0, 15} THEN 0 ELSE 0 - Unit

C9_Witness ==
  /\ pc = "loop1" /\ i = 1 /\ op = "update_values" /\ old_values = zeros
  /\ values[5] = 0 - Unit

\* C10 as claimed: the table after three sweeps of the random policy already
\* yields, at every state, the action of the displayed policy grid.
C10_Claim ==
  (pc = "loop1" /\ i = 3 /\ op = "update_values")
    => \A s \in States : improved_policy(values, s) = PolicyGrid[s]

\* C1 as claimed: at the fixed point of the deterministic evaluation (the
\* last sweep changed nothing), extracting the policy again gives the same
\* action at every state, and evaluating it reproduces the same table.
C1_Claim ==
  (pc = "done" /\ values = old_values) =>
    LET again == [s \in States |-> improved_policy(values, s)]
    IN  /\ \A s \in States : again[s] = new_policy[s]
        /\ update_values_2(values, again).values = values

\* C2 as claimed: the deterministic evaluation meets err < 0.001 no later
\* than its third sweep, ending with minus the distance to the nearest corner.
C2_Original ==
  /\ pc = "loop2" => i < 3
  /\ pc = "done" =>
       /\ i + 1 <= 3
       /\ \A s \in States :
            LET near == (s \div 4) + (s % 4)
                far == (3 - (s \div 4)) + (3 - (s % 4))
            IN  values[s] = (0 - Unit) * (IF near < far THEN near ELSE far)

\* C2 amended: the table holds minus the distance to the nearest terminal
\* corner after the third sweep, but that sweep still changes the table (err
\* is 1); err < 0.001 is first met by the fourth sweep (i = 3), which changes
\* nothing, and the loop ends there with that table.
C2_Amended ==
  LET near(s) == (s \div 4) + (s % 4)
      far(s) == (3 - (s \div 4)) + (3 - (s % 4))
      dist(s) == IF near(s) < far(s) THEN near(s) ELSE far(s)
      settled == \A s \in States : values[s] = (0 - Unit) * dist(s)
  IN  /\ pc = "loop2" => i <= 3
      /\ (pc = "loop2" /\ i \in 1 .. 3) => err = Unit
      /\ (pc = "loop2" /\ i \in 1 .. 2) => ~settled
      /\ (pc = "loop2" /\ i = 3) => settled
      /\ pc = "done" =>
           /\ i = 3
           /\ settled
           /\ err = 0
           /\ values = old_values
           /\ \A s \in States : values[s] \in {0, 0 - Unit, 0 - 2 * Unit, 0 - 3 * Unit}

C2_Witness == pc = "done" /\ i = 3 /\ values[3] = 0 - 3 * Unit

\* C5: improved_policy returns, for every state and every table, the first
\* action in the order N, S, W, E whose lookahead value V[take_action(s, a)]
\* equals the maximum over the four actions; at a terminal state that is N.
C5_FirstMaximum ==
  op = "improved_policy" =>
    \A s \in States :
      LET q(k) == values[take_action(s, actions[k])]
          k0 == CHOOSE k \in 1 .. 4 :
                  /\ \A j \in 1 .. 4 : q(j) <= q(k)
                  /\ \A j \in 1 .. k - 1 : q(j) < q(k)
      IN  /\ new_policy[s] = actions[k0]
          /\ s \in {0, 15} => new_policy[s] = "N"

\* a state where a later action ties with the chosen one, which is not N
C5_Witness ==
  /\ op = "improved_policy"
  /\ \E s \in States \ {0, 15} : \E j, k \in 2 .. 4 :
       /\ j < k
       /\ new_policy[s] = actions[j]
       /\ values[take_action(s, actions[j])] = values[take_action(s, actions[k])]
       /\ values[take_action(s, actions[1])] < values[take_action(s, actions[j])]

\* C4: a sweep is synchronous.  After any update_values call the array that
\* was passed in still holds what it held (old_values), and every entry of
\* the returned table is the sum over the four actions, taken in the order
\* N, S, W, E in float32, of policy(a) * (reward(s) + gamma * V_old[next]),
\* all V_old read from the table passed in; under the deterministic
\* definition the single term of new_policy[s].  The stochastic result is
\* within float32 rounding of the exact sum: four roundings of at most
\* 2^-20 each (half a step of float32 below 32), 32 accumulator steps each.
C4_Synchronous ==
  op = "update_values" =>
    /\ passed = old_values
    /\ \A s \in States :
         LET t(k) == (reward(s) * Unit
                        + gamma * old_values[take_action(s, actions[k])])
             sum == RoundF32(RoundF32(RoundF32(RoundF32(t(1)) + t(2)) + t(3)) + t(4))
         IN  IF defn = "stochastic"
               THEN /\ PolicyDen * values[s] = sum
                    /\ Abs(PolicyDen * values[s] - (t(1) + t(2) + t(3) + t(4))) <= 4 * 32
               ELSE values[s] =
                      RoundF32(reward(s) * Unit
                        + gamma * old_values[take_action(s, new_policy[s])])

C4_Witness ==
  /\ op = "update_values" /\ pc = "idle" /\ calls = 1 /\ defn = "stochastic"
  /\ old_values # zeros
  /\ passed = old_values
  /\ values # old_values

\* one step taken while a convergence loop is running (used by C3)
C3_LoopStep ==
  pc \in {"loop1", "loop2"} =>
    \* err < 0.01 is err <= 83886 steps of 2^-23, err < 0.001 is err <= 8388
    LET below == err' < (IF pc = "loop1" THEN 83887 ELSE 8389)
    IN  /\ op' = "update_values"
        /\ old_values' = values
        /\ values' = IF defn = "stochastic"
                       THEN update_values(values).values
                       ELSE update_values_2(values, new_policy).values
        /\ below => (pc' = "idle" /\ i' = i)
        /\ (~below /\ i < 99) => (pc' = pc /\ i' = i + 1)
        /\ (~below /\ i = 99) => (pc' = "idle" /\ i' = i)

\* C3: the convergence loop terminates: it starts from the all-zero table
\* and every loop that has started ends;
\* it ends with the first sweep whose err is below the tolerance (0.01 for
\* the first loop, 0.001 for the second), goes on otherwise, never makes
\* more than n_iter = 100 sweeps, and leaves in values the table of the last
\* sweep it made, whether or not the tolerance was reached.
C3_LoopTerminates ==
  /\ [](pc \in {"loop1", "loop2"} => i < n_iter)
  /\ []((pc \in {"loop1", "loop2"} /\ op = "zeros") => (values = zeros /\ i = 0))
  /\ [][C3_LoopStep]_vars
  /\ (pc \in {"loop1", "loop2"}) ~> (pc = "idle")

\* the loop ended by the cap: 100 sweeps made, tolerance not reached
C3_Witness ==
  /\ pc = "idle" /\ op = "update_values" /\ i = 99
  /\ err > 83887
  /\ values # old_values


\* C11 as claimed: under evaluation of the uniform-random policy from the
\* all-zero table, after every number of sweeps the table is symmetric under
\* the diagonal and the rotation of the grid, V[r][c] = V[c][r] and
\* V[r][c] = V[3-r][3-c], and both terminal states hold 0.
C11_Claim ==
  defn = "stochastic" =>
    /\ \A r \in 0 .. 3 : \A c \in 0 .. 3 :
         /\ values[State(r, c)] = values[State(c, r)]
         /\ values[State(r, c)] = values[State(3 - r, 3 - c)]
    /\ values[0] = 0
    /\ values[15] = 0

====
